---- MODULE Spec2Model ----
(***************************************************************************)
(* Feed-bot: the mirroring engine of src/handlers.py.                      *)
(*                                                                         *)
(* Source messages posted in guild channels are mirrored into the feed     *)
(* channels of the guild's route; edits and deletes are propagated to the  *)
(* mirrored copies through the mapping collection.  Every handler is a     *)
(* coroutine: an action of this module runs one handler from one await to  *)
(* the next, and the outcome of every transport call is a nondeterministic *)
(* choice.                                                                 *)
(***************************************************************************)
EXTENDS Integers, Sequences, FiniteSets, TLC

\* ------------------------------------------------------------------ bounds
MaxMsgs == 2           \* source messages users post in one run
MaxTime == 6           \* the clock runs 0..MaxTime (minutes)
MaxStickers == 2       \* stickers a message carries
MaxAttachments == 2    \* attachments a message carries
MaxRoute == 2          \* feed channels in one guild's route
MaxCopies == 2         \* mirrored copies delivered in one run
MaxRaceCopies == 3     \* the same while duplicates of events are handled
MaxNameLen == 4        \* glyphs in a channel name
MaxRunMsgs == 3        \* source messages of one author's run of messages

\* ------------------------------------------------------- program constants
GroupingWindow == 5    \* timedelta(minutes=5)

\* ---------------------------------------------------------------- universe
None == 0              \* Python's None for ids (ids are positive)
Bot == 9               \* client.user.id
Users == {7, 8}
Authors == Users \cup {Bot}
Guilds == {1, 2}
DM == 4                \* a private channel: its messages have no guild
Channels == {1, 2, 3}  \* guild channels
guildOf(c) == IF c = DM THEN None ELSE IF c = 3 THEN 2 ELSE 1
\* the channels the admins of guild g configure as its feed channels
FeedCandidates(g) == IF g = 1 THEN {2, 3} ELSE {2}
Tasks == {1, 2}        \* handler coroutines in flight
Bodies == {"", "text", "-# small"}

\* a line of content begins with the header-line marker
StartsWithMarker(line) == line \in {"-# header", "-# small"}

\* sequences without repetition over S of length at most n
NoDupSeqs(S, n) ==
    {s \in UNION {[1..k -> S] : k \in 0..n} :
        \A i, j \in 1..Len(s) : i # j => s[i] # s[j]}

Range(s) == {s[i] : i \in 1..Len(s)}

VARIABLES
    routes,              \* guild routes collection: guild -> feed channel ids, in order
    mapping,             \* mapping collection: a set of mapping documents
    feed,                \* mirrored copies at the destinations: id -> message
    header_state,        \* FeedHeaderState._state: feed channel -> last mirror
    feed_channel_cache,  \* resolved feed channels
    now,                 \* the clock, datetime.now(timezone.utc)
    msgs,                \* source messages posted so far: id -> channel, author, reply target
    task,                \* the handler coroutines: task -> frame
    probe                \* the call of a pure function under test, and its result

vars == <<routes, mapping, feed, header_state, feed_channel_cache, now, msgs, task, probe>>

\* ------------------------------------------------------------ pure helpers
\* a mentions policy that lets the author of the replied message be pinged
AllowedMentions_pinging ==
    [users |-> FALSE, roles |-> FALSE, everyone |-> FALSE, replied_user |-> TRUE]

\* AllowedMentions = discord.AllowedMentions(users=False, roles=False,
\* everyone=False, replied_user=False)
AllowedMentions ==
    [users |-> FALSE, roles |-> FALSE, everyone |-> FALSE, replied_user |-> FALSE]

\* should_include_header with a window that must be exceeded, not reached
should_include_header_strict(state, feed_channel_id, source_channel_id, author_id, is_reply, t) ==
    IF is_reply THEN TRUE
    ELSE IF feed_channel_id \notin DOMAIN state THEN TRUE
    ELSE LET last == state[feed_channel_id]
         IN IF last.source_channel_id # source_channel_id \/ last.author_id # author_id
            THEN TRUE
            ELSE t - last.timestamp > GroupingWindow

\* FeedHeaderState.should_include_header, on the dict `state`
should_include_header(state, feed_channel_id, source_channel_id, author_id, is_reply, t) ==
    IF is_reply THEN TRUE
    ELSE IF feed_channel_id \notin DOMAIN state THEN TRUE
    ELSE LET last == state[feed_channel_id]
         IN IF last.source_channel_id # source_channel_id \/ last.author_id # author_id
            THEN TRUE
            ELSE t - last.timestamp >= GroupingWindow

\* update that records nothing
update_dropped(state, feed_channel_id, source_channel_id, author_id, timestamp) == state

\* FeedHeaderState.update: overwrite the entry of the feed channel
update(state, feed_channel_id, source_channel_id, author_id, timestamp) ==
    [c \in DOMAIN state \cup {feed_channel_id} |->
        IF c = feed_channel_id
        THEN [author_id |-> author_id,
              source_channel_id |-> source_channel_id,
              timestamp |-> timestamp]
        ELSE state[c]]

\* build_content: the header line (if any) and the body (if any), as lines;
\* <<>> is Python's None
build_content(message, include_header) ==
    (IF include_header THEN <<"-# header">> ELSE <<>>)
    \o (IF message.body # "" THEN <<message.body>> ELSE <<>>)

\* the header decision of an edit that always rebuilds with a header
content_has_header_assumed(content) == TRUE

\* feed_message.content.startswith("-# ") if feed_message.content else False
content_has_header(content) ==
    IF content = <<>> THEN FALSE ELSE StartsWithMarker(content[1])

\* mapping_id = f"{message.id}:{feed_channel_id}"
mapping_id(source_message_id, feed_channel_id) == <<source_message_id, feed_channel_id>>

\* mapping_collection.find_one({"_id": id})
find_one(id) == {r \in mapping : r.id = id}

\* find that returns one document at most
find_first(source_message_id) ==
    LET found == {r \in mapping : r.source_message_id = source_message_id}
    IN IF found = {} THEN {} ELSE {CHOOSE r \in found : TRUE}

\* mapping_collection.find({"source_message_id": id})
find(source_message_id) == {r \in mapping : r.source_message_id = source_message_id}

\* the document of _store_mapping with the id of the source message in the
\* place of the id of the copy
mapping_doc_of_source(message, feed_message_id, feed_channel_id) ==
    [id |-> mapping_id(message.id, feed_channel_id),
     source_message_id |-> message.id,
     feed_message_id |-> message.id,
     feed_channel_id |-> feed_channel_id,
     source_guild_id |-> message.guild]

\* the document _store_mapping inserts
mapping_doc(message, feed_message_id, feed_channel_id) ==
    [id |-> mapping_id(message.id, feed_channel_id),
     source_message_id |-> message.id,
     feed_message_id |-> feed_message_id,
     feed_channel_id |-> feed_channel_id,
     source_guild_id |-> message.guild]

\* ---------------------------------------------- extract_channel_name_parts
\* a channel name is a sequence of glyphs: emoji, a letter, a blank
Emoji == {":fire:", ":pin:"}
Glyphs == Emoji \cup {"a", " "}
Names == UNION {[1..k -> Glyphs] : k \in 0..MaxNameLen}

\* an emoji slot that is None
NoEmoji == ""

\* emoji.emoji_list(name): the emoji of the name with their positions, in order
RECURSIVE emoji_list_from(_, _)
emoji_list_from(name, i) ==
    IF i > Len(name) THEN <<>>
    ELSE (IF name[i] \in Emoji
          THEN <<[emoji |-> name[i], match_start |-> i - 1, match_end |-> i]>>
          ELSE <<>>) \o emoji_list_from(name, i + 1)

emoji_list(name) == emoji_list_from(name, 1)

\* emoji.replace_emoji(name, replace="")
replace_emoji(name) == SelectSeq(name, LAMBDA g : g \notin Emoji)

\* str.lstrip() and str.rstrip()
RECURSIVE lstrip(_)
lstrip(s) == IF s # <<>> /\ Head(s) = " " THEN lstrip(Tail(s)) ELSE s

RECURSIVE rstrip(_)
rstrip(s) ==
    IF s # <<>> /\ s[Len(s)] = " " THEN rstrip(SubSeq(s, 1, Len(s) - 1)) ELSE s

\* while idx < len(entries) and entries[idx].match_start == block_end: the
\* idx the loop ends with (0-based, so entries[idx] is entries[idx + 1] here)
RECURSIVE leading_block(_, _, _)
leading_block(entries, idx, block_end) ==
    IF idx < Len(entries) /\ entries[idx + 1].match_start = block_end
    THEN leading_block(entries, idx + 1, entries[idx + 1].match_end)
    ELSE idx

\* extract_channel_name_parts(name): leading emoji, cleaned text, trailing emoji
extract_channel_name_parts(name) ==
    LET entries == emoji_list(name)
        first == entries[1]
    IN IF entries = <<>> THEN <<NoEmoji, name, NoEmoji>>
       ELSE IF first.match_start = 0
       THEN IF leading_block(entries, 0, 0) = Len(entries)
            THEN <<first.emoji, lstrip(SubSeq(name, first.match_end + 1, Len(name))), NoEmoji>>
            ELSE <<NoEmoji, replace_emoji(name), NoEmoji>>
       ELSE IF Len(entries) = 1 /\ first.match_end = Len(name)
       THEN <<NoEmoji, rstrip(SubSeq(name, 1, first.match_start)), first.emoji>>
       ELSE <<NoEmoji, replace_emoji(name), NoEmoji>>

\* ------------------------------------------------------------------ frames
NoMsg == [id |-> None, guild |-> None, channel |-> None, author |-> None,
          reply_to |-> None, stickers |-> 0, attachments |-> 0, body |-> ""]

NoMapping == [id |-> <<None, None>>, source_message_id |-> None, feed_message_id |-> None,
              feed_channel_id |-> None, source_guild_id |-> None]

\* the locals of one call of mirror_message_to_feed_channel, before it runs
Locals == [building |-> 0, files |-> 0, fallback_sticker_files |-> 0,
           is_reply |-> FALSE, current_time |-> 0, include_header |-> FALSE,
           parent_mapping |-> None, fetched |-> "none", parent_reference |-> None,
           sticker_idx |-> 0, exc |-> "none", feed_message |-> None,
           opened |-> 0, attempts |-> <<>>, allowed |-> TRUE]

\* no call of mirror_message_to_feed_channel has just ended
NoCall == [dest |-> None, outcome |-> "none", closed |-> 0, loc |-> Locals]

Idle == [kind |-> "idle", pc |-> "idle", msg |-> NoMsg, todo |-> <<>>,
         cursor |-> {}, cur |-> NoMapping, dest |-> None, loc |-> Locals,
         last |-> NoCall, edits |-> <<>>, deletes |-> <<>>]

\* no pure function is under test
NoProbe == [fn |-> "none", feed_channel_id |-> None, source_channel_id |-> None,
            author_id |-> None, is_reply |-> FALSE, out |-> FALSE]

\* the routes add-feed-channel can build, channels added in increasing order;
\* guild 2 has a route
RouteChoices(g) ==
    {s \in NoDupSeqs(FeedCandidates(g), MaxRoute) :
        /\ \A i, j \in 1..Len(s) : i < j => s[i] < s[j]
        /\ g = 2 => s # <<>>}

Init ==
    /\ routes \in {r \in [Guilds -> NoDupSeqs(Channels, MaxRoute)] :
                    \A g \in Guilds : r[g] \in RouteChoices(g)}
    /\ mapping = {}
    /\ feed = <<>>
    /\ header_state = <<>>
    /\ feed_channel_cache = <<>>
    /\ now = 0
    /\ msgs = <<>>
    /\ task = [t \in Tasks |-> Idle]
    /\ probe = NoProbe

\* ------------------------------------------------------- frame operations
Set(t, f) == task' = [task EXCEPT ![t] = f]

Quiet == \A t \in Tasks : task[t].pc = "idle"

\* the record of the call of mirror_message_to_feed_channel that just ended;
\* the frame keeps it for one step
CallRecord(f, outcome, closed) ==
    [dest |-> f.dest, outcome |-> outcome, closed |-> closed, loc |-> f.loc]

\* handle_message's loop: the call for f.dest returned, go on with the next entry
Return(f, outcome, closed) ==
    LET rest == Tail(f.todo)
    IN [f EXCEPT !.last = CallRecord(f, outcome, closed),
                 !.todo = rest,
                 !.dest = IF rest = <<>> THEN None ELSE Head(rest),
                 !.loc = Locals,
                 !.pc = IF rest = <<>> THEN "done" ELSE "resolve"]

\* the finally block: close every handle in [*files, *fallback_sticker_files]
Closed(f) == f.loc.files + f.loc.fallback_sticker_files

\* the call for f.dest raised, and handle_message goes on as after a return
Raise_returned(f) == Return(f, "raised", Closed(f))

\* the call for f.dest raised: the exception leaves handle_message as well
Raise(f) ==
    [f EXCEPT !.last = CallRecord(f, "raised", Closed(f)),
              !.loc = Locals,
              !.pc = "raised"]

\* ----------------------------------------------------------- handle_message
\* is_self with the check left out
is_self_unchecked(author_id) == FALSE

\* if client.user and message.author.id == client.user.id
is_self(author_id) == author_id = Bot

\* feed_channel_ids of the route, and the loop guard on them
is_feed_source(channel_id, feed_channels) == channel_id \in Range(feed_channels)

\* the synchronous prefix of handle_message, up to the await of find_one
EnterHandleMessage(m) ==
    IF m.guild = None \/ is_self(m.author)
    THEN [Idle EXCEPT !.kind = "message", !.msg = m, !.pc = "done"]
    ELSE [Idle EXCEPT !.kind = "message", !.msg = m, !.pc = "route"]

\* The ids the platform hands out are unique; nothing else about them is used.
\* Source messages take 1..MaxRunMsgs at most and mirrored copies the ids above.
NewId == Cardinality(DOMAIN msgs) + 1
NewCopyId == MaxRunMsgs + Cardinality(DOMAIN feed) + 1

\* the messages a user can post next
NewMessages ==
    {m \in [id : {NewId}, guild : Guilds \cup {None}, channel : Channels \cup {DM},
            author : Users,
            reply_to : {None} \cup DOMAIN msgs,
            stickers : 0..MaxStickers, attachments : 0..MaxAttachments,
            body : Bodies] :
        /\ m.guild = guildOf(m.channel)
        /\ m.body # "" \/ m.stickers > 0 \/ m.attachments > 0
        /\ m.reply_to \in DOMAIN msgs => msgs[m.reply_to].channel = m.channel}

\* the mirrored copy c as the message the gateway delivers to on_message
AsMessage(c) ==
    [id |-> c, guild |-> guildOf(feed[c].channel), channel |-> feed[c].channel,
     author |-> Bot, reply_to |-> feed[c].reference, stickers |-> 0,
     attachments |-> 0, body |-> ""]

\* what every event about a message agrees on; the rest of the payload
\* (stickers, attachments, body) comes with each event
Identity(m) ==
    [channel |-> m.channel, author |-> m.author, reply_to |-> m.reply_to,
     deleted |-> FALSE]

\* the source message i as the gateway delivers it, with payload p
WithPayload(i, p) ==
    [id |-> i, guild |-> guildOf(msgs[i].channel), channel |-> msgs[i].channel,
     author |-> msgs[i].author, reply_to |-> msgs[i].reply_to,
     stickers |-> p.stickers, attachments |-> p.attachments, body |-> p.body]

\* a user posts m, while fewer than `limit` messages were posted; on_message
\* runs handle_message in task t
PostWithin(t, m, limit) ==
    /\ task[t].pc = "idle"
    /\ Cardinality(DOMAIN msgs) < limit
    /\ msgs' = [i \in DOMAIN msgs \cup {m.id} |-> IF i = m.id THEN Identity(m) ELSE msgs[i]]
    /\ Set(t, EnterHandleMessage(m))
    /\ UNCHANGED <<probe, routes, mapping, feed, header_state, feed_channel_cache, now>>

\* a user posts m; on_message runs handle_message in task t
Post(t, m) == PostWithin(t, m, MaxMsgs)

\* the gateway delivers the new-message event of a source message once more
Redeliver(t, i, p) ==
    /\ task[t].pc = "idle"
    /\ i \in DOMAIN msgs
    /\ Set(t, EnterHandleMessage(WithPayload(i, p)))
    /\ UNCHANGED <<probe, routes, mapping, feed, header_state, feed_channel_cache, now, msgs>>

\* the gateway delivers the relay's own mirrored copy as a new message
DeliverCopy(t, c) ==
    /\ task[t].pc = "idle"
    /\ c \in DOMAIN feed
    /\ feed[c].alive
    /\ Set(t, EnterHandleMessage(AsMessage(c)))
    /\ UNCHANGED <<probe, routes, mapping, feed, header_state, feed_channel_cache, now, msgs>>

\* route = await routes_collection.find_one(...), the loop guard, the first entry
Route(t) ==
    LET f == task[t]
        feed_channels == routes[f.msg.guild]
    IN /\ f.pc = "route"
       /\ IF feed_channels = <<>> \/ is_feed_source(f.msg.channel, feed_channels)
          THEN Set(t, [f EXCEPT !.pc = "done"])
          ELSE Set(t, [f EXCEPT !.todo = feed_channels, !.dest = Head(feed_channels),
                                !.pc = "resolve"])
       /\ UNCHANGED <<probe, routes, mapping, feed, header_state, feed_channel_cache, now, msgs>>

\* ------------------------------------------------------- get_feed_channel
\* the outcomes of client.get_channel / client.fetch_channel the call can see
ResolveOutcomes(feed_channel_id) ==
    IF feed_channel_id \in DOMAIN feed_channel_cache THEN {TRUE} ELSE BOOLEAN

\* the channel object client.get_channel returns, and the one fetch_channel
\* builds for the call made in task t
ClientObject == 3
FetchedObject(t) == t

\* channel = feed_channel_cache.get(feed_channel_id); if channel: return channel
cache_hit(feed_channel_id) == feed_channel_id \in DOMAIN feed_channel_cache

\* the write of the cache that drops the other entries
store_channel_alone(feed_channel_id, channel) ==
    [x \in {feed_channel_id} |-> channel]

\* feed_channel_cache[feed_channel_id] = channel
store_channel(feed_channel_id, channel) ==
    [x \in DOMAIN feed_channel_cache \cup {feed_channel_id} |->
        IF x = feed_channel_id THEN channel ELSE feed_channel_cache[x]]

\* the cache after get_feed_channel(feed_channel_id) ran without another
\* handler in between, the transport answering ok or not
get_feed_channel(feed_channel_id, ok) ==
    IF cache_hit(feed_channel_id) THEN feed_channel_cache
    ELSE IF ok THEN store_channel(feed_channel_id, ClientObject)
    ELSE feed_channel_cache

\* ------------------------------------------ mirror_message_to_feed_channel
\* existing_mapping with the check left out
existing_mapping_unchecked(source_message_id, feed_channel_id) == FALSE

\* existing_mapping = await mapping_collection.find_one({"_id": mapping_id})
existing_mapping(source_message_id, feed_channel_id) ==
    find_one(mapping_id(source_message_id, feed_channel_id)) # {}

\* current_time, the header decision, and the branch on is_reply
Decide(f) ==
    [f EXCEPT !.loc.current_time = now,
              !.loc.include_header =
                  should_include_header(header_state, f.dest, f.msg.channel,
                                        f.msg.author, f.loc.is_reply, now),
              !.pc = IF f.loc.is_reply THEN "parent" ELSE "send"]

\* feed_channel = await get_feed_channel(...)
Resolve(t, ok) ==
    LET f == task[t]
    IN /\ f.pc = "resolve"
       /\ ok \in ResolveOutcomes(f.dest)
       /\ feed_channel_cache' = get_feed_channel(f.dest, ok)
       /\ IF f.dest \in DOMAIN feed_channel_cache'
          THEN Set(t, [f EXCEPT !.last = NoCall, !.pc = "check"])
          ELSE Set(t, Return(f, "unresolved", 0))
       /\ UNCHANGED <<probe, routes, mapping, feed, header_state, now, msgs>>

\* get_feed_channel up to its await: the cache, then client.get_channel,
\* which knows the channel (hit) or not
Lookup(t, hit) ==
    LET f == task[t]
    IN /\ f.pc = "resolve"
       /\ IF cache_hit(f.dest)
          THEN /\ hit
               /\ feed_channel_cache' = feed_channel_cache
               /\ Set(t, [f EXCEPT !.last = NoCall, !.pc = "check"])
          ELSE IF hit
          THEN /\ feed_channel_cache' = store_channel(f.dest, ClientObject)
               /\ Set(t, [f EXCEPT !.last = NoCall, !.pc = "check"])
          ELSE /\ feed_channel_cache' = feed_channel_cache
               /\ Set(t, [f EXCEPT !.pc = "fetch_channel"])
       /\ UNCHANGED <<probe, routes, mapping, feed, header_state, now, msgs>>

\* channel = await client.fetch_channel(feed_channel_id) answers
FetchChannel(t, ok) ==
    LET f == task[t]
    IN /\ f.pc = "fetch_channel"
       /\ IF ok
          THEN /\ feed_channel_cache' = store_channel(f.dest, FetchedObject(t))
               /\ Set(t, [f EXCEPT !.last = NoCall, !.pc = "check"])
          ELSE /\ feed_channel_cache' = feed_channel_cache
               /\ Set(t, Return(f, "unresolved", 0))
       /\ UNCHANGED <<probe, routes, mapping, feed, header_state, now, msgs>>

\* the permissions the relay's member has at a destination
Permissions ==
    [view_channel : BOOLEAN, send_messages : BOOLEAN, send_messages_in_threads : BOOLEAN]

\* channel 3 is a thread; the other channels are text channels
is_thread(channel_id) == channel_id = 3

\* what the platform enforces on a send: view, and the send permission of the
\* kind of the channel
has_capability(perms, channel_id) ==
    /\ perms.view_channel
    /\ IF is_thread(channel_id) THEN perms.send_messages_in_threads
                                ELSE perms.send_messages

\* perms.view_channel and can_send, when feed_channel.guild.me is known; the
\* check is not made when it is not
permitted(perms, me) ==
    ~me \/ (perms.view_channel /\ (perms.send_messages \/ perms.send_messages_in_threads))

\* the idempotency check, the permission check, the start of the try block
Check(t, perms, me) ==
    LET f == task[t]
        h == [f EXCEPT !.loc.allowed = has_capability(perms, f.dest)]
        g == [h EXCEPT !.loc.is_reply = (f.msg.reply_to # None)]
    IN /\ f.pc = "check"
       /\ IF existing_mapping(f.msg.id, f.dest)
          THEN Set(t, Return(f, "skip", 0))
          ELSE IF ~permitted(perms, me)
          THEN Set(t, Return(h, "abstain", 0))
          ELSE IF f.msg.attachments > 0
          THEN Set(t, [g EXCEPT !.pc = "attach"])
          ELSE Set(t, Decide(g))
       /\ UNCHANGED <<probe, routes, mapping, feed, header_state, feed_channel_cache, now, msgs>>

\* build_attachment_files: one await attachment.to_file()
Attach(t, ok) ==
    LET f == task[t]
        n == f.loc.building + 1
    IN /\ f.pc = "attach"
       /\ IF ~ok
          THEN Set(t, Raise([f EXCEPT !.loc.exc = "attachment"]))
          ELSE IF n < f.msg.attachments
          THEN Set(t, [f EXCEPT !.loc.building = n, !.loc.opened = @ + 1])
          ELSE Set(t, Decide([f EXCEPT !.loc.building = n, !.loc.opened = @ + 1,
                                       !.loc.files = n]))
       /\ UNCHANGED <<probe, routes, mapping, feed, header_state, feed_channel_cache, now, msgs>>

\* parent_mapping = await mapping_collection.find_one(...)
Parent(t) ==
    LET f == task[t]
        found == find_one(mapping_id(f.msg.reply_to, f.dest))
    IN /\ f.pc = "parent"
       /\ IF found # {}
          THEN Set(t, [f EXCEPT !.loc.parent_mapping = (CHOOSE r \in found : TRUE).feed_message_id,
                                !.pc = "fetchp"])
          ELSE Set(t, [f EXCEPT !.pc = "send"])
       /\ UNCHANGED <<probe, routes, mapping, feed, header_state, feed_channel_cache, now, msgs>>

\* the outcomes of feed_channel.fetch_message(id)
FetchOutcomes(channel_id, id) ==
    {"http"} \cup (IF id \in DOMAIN feed /\ feed[id].channel = channel_id /\ feed[id].alive
                   THEN {"ok"} ELSE {"not_found"})

\* parent_reference with the fetched message dropped
parent_reference_dropped(feed_message_id, outcome) == None

\* parent_reference after the try block around fetch_message: the fetched
\* message, or None when the fetch raised NotFound or HTTPException
parent_reference(feed_message_id, outcome) ==
    IF outcome = "ok" THEN feed_message_id ELSE None

\* parent_reference = await feed_channel.fetch_message(...)
FetchParent(t, outcome) ==
    LET f == task[t]
    IN /\ f.pc = "fetchp"
       /\ outcome \in FetchOutcomes(f.dest, f.loc.parent_mapping)
       /\ Set(t, [f EXCEPT !.loc.fetched = outcome,
                           !.loc.parent_reference =
                               parent_reference(f.loc.parent_mapping, outcome),
                           !.pc = "send"])
       /\ UNCHANGED <<probe, routes, mapping, feed, header_state, feed_channel_cache, now, msgs>>

\* ------------------------------------------------------------------ sends
\* the outcomes of feed_channel.send: the copy is delivered, or the transport
\* raises discord.HTTPException for one of these causes
SendResults(reference, stickers) ==
    {"ok", "other"}
    \cup (IF reference # None THEN {"bad_reference"} ELSE {})
    \cup (IF stickers > 0 THEN {"stickers"} ELSE {})

\* the platform refuses every send of a call that lacks the capability
Delivery(f, results) == IF f.loc.allowed THEN results ELSE {"forbidden"}

\* one call of feed_channel.send(**send_kwargs), as the transport saw it
Attempt(f, phase, reference, stickers, files, result) ==
    [dest |-> f.dest, phase |-> phase, reference |-> reference, stickers |-> stickers,
     files |-> files, allowed_mentions |-> AllowedMentions, result |-> result,
     id |-> IF result = "ok" THEN NewCopyId ELSE None]

\* the message the transport creates for a successful send
Copy(f, a) ==
    [channel |-> f.dest, source |-> f.msg.id,
     content |-> build_content(f.msg, f.loc.include_header),
     reference |-> a.reference, alive |-> TRUE]

\* if send_kwargs.get("reference"): retry without it
retry_without_reference(reference, exc) == reference # None

\* the send succeeded, and the grouping state is written only for a copy that
\* carries a header
Sent_header_only(t, f, a) ==
    /\ feed' = [i \in DOMAIN feed \cup {NewCopyId} |->
                   IF i = NewCopyId THEN Copy(f, a) ELSE feed[i]]
    /\ header_state' = IF f.loc.include_header
                       THEN update(header_state, f.dest, f.msg.channel, f.msg.author,
                                   f.loc.current_time)
                       ELSE header_state
    /\ Set(t, [f EXCEPT !.loc.attempts = Append(@, a), !.loc.feed_message = NewCopyId,
                        !.pc = "store"])

\* feed_message = await feed_channel.send(...) succeeded: header_state.update,
\* then await _store_mapping
Sent(t, f, a) ==
    /\ feed' = [i \in DOMAIN feed \cup {NewCopyId} |->
                   IF i = NewCopyId THEN Copy(f, a) ELSE feed[i]]
    /\ header_state' = update(header_state, f.dest, f.msg.channel, f.msg.author,
                              f.loc.current_time)
    /\ Set(t, [f EXCEPT !.loc.attempts = Append(@, a), !.loc.feed_message = NewCopyId,
                        !.pc = "store"])

\* the send raised: the fallbacks of the except block that still apply
Failed(t, f, a, retry) ==
    LET g == [f EXCEPT !.loc.attempts = Append(@, a), !.loc.exc = a.result]
    IN /\ IF retry
          THEN Set(t, [g EXCEPT !.loc.parent_reference = None, !.pc = "retry"])
          ELSE IF f.msg.stickers > 0
          THEN Set(t, [g EXCEPT !.pc = "sticker"])
          ELSE Set(t, Raise(g))
       /\ UNCHANGED <<feed, header_state>>

\* feed_message = await feed_channel.send(**send_kwargs), line 394
Send(t, result) ==
    LET f == task[t]
        a == Attempt(f, "initial", f.loc.parent_reference, f.msg.stickers,
                     f.loc.files, result)
    IN /\ f.pc = "send"
       /\ result \in Delivery(f, SendResults(f.loc.parent_reference, f.msg.stickers))
       /\ IF result = "ok"
          THEN Sent(t, f, a)
          ELSE Failed(t, f, a, retry_without_reference(f.loc.parent_reference, result))
       /\ UNCHANGED <<probe, routes, mapping, feed_channel_cache, now, msgs>>

\* the retry with send_kwargs["reference"] = None, line 400
Retry(t, result) ==
    LET f == task[t]
        a == Attempt(f, "no_reference", None, f.msg.stickers, f.loc.files, result)
    IN /\ f.pc = "retry"
       /\ result \in Delivery(f, SendResults(None, f.msg.stickers))
       /\ IF result = "ok" THEN Sent(t, f, a) ELSE Failed(t, f, a, FALSE)
       /\ UNCHANGED <<probe, routes, mapping, feed_channel_cache, now, msgs>>

\* sticker_file = await _sticker_to_file(sticker): None when the read raises
Sticker(t, ok) ==
    LET f == task[t]
        i == f.loc.sticker_idx + 1
        got == f.loc.fallback_sticker_files + (IF ok THEN 1 ELSE 0)
        g == [f EXCEPT !.loc.sticker_idx = i, !.loc.fallback_sticker_files = got,
                       !.loc.opened = @ + (IF ok THEN 1 ELSE 0)]
    IN /\ f.pc = "sticker"
       /\ IF i < f.msg.stickers
          THEN Set(t, g)
          ELSE IF got = 0
          THEN Set(t, Raise(g))
          ELSE Set(t, [g EXCEPT !.pc = "fallback"])
       /\ UNCHANGED <<probe, routes, mapping, feed, header_state, feed_channel_cache, now, msgs>>

\* the files of the fallback send with the attachments left out
fallback_files_stickers_only(files, fallback_sticker_files) == fallback_sticker_files

\* send_kwargs["files"] = [*files, *fallback_sticker_files]
fallback_files(files, fallback_sticker_files) == files + fallback_sticker_files

\* the file-only send of line 432; its failure leaves the call
Fallback(t, result) ==
    LET f == task[t]
        a == Attempt(f, "fallback", f.loc.parent_reference, 0,
                     fallback_files(f.loc.files, f.loc.fallback_sticker_files), result)
    IN /\ f.pc = "fallback"
       /\ result \in Delivery(f, SendResults(f.loc.parent_reference, 0))
       /\ IF result = "ok"
          THEN Sent(t, f, a)
          ELSE /\ Set(t, Raise([f EXCEPT !.loc.attempts = Append(@, a), !.loc.exc = result]))
               /\ UNCHANGED <<feed, header_state>>
       /\ UNCHANGED <<probe, routes, mapping, feed_channel_cache, now, msgs>>

\* insert_one into a collection that has no unique key
insert_one_unguarded(doc) == mapping \cup {doc}

\* insert_one: the collection refuses a second document with the same _id
insert_one(doc) == IF find_one(doc.id) # {} THEN mapping ELSE mapping \cup {doc}

\* await _store_mapping(...), then the finally block and the return
Store(t) ==
    LET f == task[t]
        doc == mapping_doc(f.msg, f.loc.feed_message, f.dest)
    IN /\ f.pc = "store"
       /\ mapping' = insert_one(doc)
       /\ IF find_one(doc.id) # {}
          THEN Set(t, Raise([f EXCEPT !.loc.exc = "duplicate_key"]))
          ELSE Set(t, Return(f, "sent", Closed(f)))
       /\ UNCHANGED <<probe, routes, feed, header_state, feed_channel_cache, now, msgs>>

\* ------------------------------------------- handle_message_edit, delete
\* the synchronous prefix of handle_message_edit
EnterHandleEdit(after) ==
    IF after.guild = None \/ is_self(after.author)
    THEN [Idle EXCEPT !.kind = "edit", !.msg = after, !.pc = "done"]
    ELSE [Idle EXCEPT !.kind = "edit", !.msg = after, !.pc = "find"]

\* the synchronous prefix of handle_message_delete (raw = FALSE) and of
\* handle_raw_message_delete (raw = TRUE), which has no author to look at
EnterHandleDelete(m, raw) ==
    IF m.guild = None \/ (~raw /\ is_self(m.author))
    THEN [Idle EXCEPT !.kind = "delete", !.msg = m, !.pc = "done"]
    ELSE [Idle EXCEPT !.kind = "delete", !.msg = m, !.pc = "find"]

\* a user edits source message i; on_message_edit runs in task t
Edit(t, i, p) ==
    /\ task[t].pc = "idle"
    /\ i \in DOMAIN msgs
    /\ ~msgs[i].deleted
    /\ Set(t, EnterHandleEdit(WithPayload(i, p)))
    /\ UNCHANGED <<probe, routes, mapping, feed, header_state, feed_channel_cache, now, msgs>>

\* source message i is deleted (or its delete event arrives once more, as the
\* hydrated and the raw event both do); the delete handler runs in task t
Delete(t, i, raw) ==
    /\ task[t].pc = "idle"
    /\ i \in DOMAIN msgs
    /\ msgs' = [msgs EXCEPT ![i].deleted = TRUE]
    /\ Set(t, EnterHandleDelete(WithPayload(i, [stickers |-> 0, attachments |-> 0, body |-> ""]), raw))
    /\ UNCHANGED <<probe, routes, mapping, feed, header_state, feed_channel_cache, now>>

\* cursor = mapping_collection.find({"source_message_id": ...}): the documents
\* the cursor returns are those of its first batch
Find(t) ==
    LET f == task[t]
    IN /\ f.pc = "find"
       /\ Set(t, [f EXCEPT !.cursor = find(f.msg.id), !.pc = "loop"])
       /\ UNCHANGED <<probe, routes, mapping, feed, header_state, feed_channel_cache, now, msgs>>

\* async for mapping in cursor: the next document
NextMapping(t, r) ==
    LET f == task[t]
    IN /\ f.pc = "loop"
       /\ r \in f.cursor
       /\ Set(t, [f EXCEPT !.cursor = @ \ {r}, !.cur = r, !.pc = "mresolve"])
       /\ UNCHANGED <<probe, routes, mapping, feed, header_state, feed_channel_cache, now, msgs>>

\* the cursor is exhausted: the handler returns
LoopEnd(t) ==
    LET f == task[t]
    IN /\ f.pc = "loop"
       /\ f.cursor = {}
       /\ Set(t, [f EXCEPT !.cur = NoMapping, !.pc = "done"])
       /\ UNCHANGED <<probe, routes, mapping, feed, header_state, feed_channel_cache, now, msgs>>

\* the edit loop went on to the next mapping without calling feed_message.edit
Skipped(m, result) ==
    [mapping |-> m, result |-> result, issued |-> FALSE, allowed_mentions |-> None]

\* the edit loop with a failure at one mapping leaving the handler
EditNext_aborted(f, entry) ==
    [f EXCEPT !.edits = Append(@, entry), !.loc = Locals,
              !.pc = IF entry.result = "ok" THEN "loop" ELSE "raised"]

\* the edit loop is done with one mapping (continue, or the end of the body,
\* the exception of the edit being caught) and goes on with the cursor
EditNext(f, entry) ==
    [f EXCEPT !.edits = Append(@, entry), !.loc = Locals, !.pc = "loop"]

\* the delete loop with a copy that is already gone leaving the handler
DeleteNext_raising(f, entry) ==
    [f EXCEPT !.deletes = Append(@, entry),
              !.pc = IF entry.result = "not_found" THEN "raised" ELSE "dunmap"]

\* the delete loop goes on to delete_one whatever the remote delete did:
\* NotFound is passed over, Forbidden and any other exception are printed
DeleteNext(f, entry) ==
    [f EXCEPT !.deletes = Append(@, entry), !.pc = "dunmap"]

\* feed_channel = await get_feed_channel(...) of the edit and delete loops
ResolveMapped(t, ok) ==
    LET f == task[t]
        d == f.cur.feed_channel_id
    IN /\ f.pc = "mresolve"
       /\ ok \in ResolveOutcomes(d)
       /\ feed_channel_cache' = get_feed_channel(d, ok)
       /\ IF d \in DOMAIN feed_channel_cache'
          THEN Set(t, [f EXCEPT !.pc = IF f.kind = "edit" THEN "efetch" ELSE "ddelete"])
          ELSE IF f.kind = "edit"
          THEN Set(t, EditNext(f, Skipped(f.cur, "unresolved")))
          ELSE Set(t, DeleteNext(f, [mapping |-> f.cur, result |-> "unresolved"]))
       /\ UNCHANGED <<probe, routes, mapping, feed, header_state, now, msgs>>

\* feed_message = await feed_channel.fetch_message(feed_message_id)
FetchMirror(t, outcome) ==
    LET f == task[t]
    IN /\ f.pc = "efetch"
       /\ outcome \in FetchOutcomes(f.cur.feed_channel_id, f.cur.feed_message_id)
       /\ IF outcome = "ok"
          THEN Set(t, [f EXCEPT !.loc.include_header =
                                    content_has_header(feed[f.cur.feed_message_id].content),
                                !.pc = "eedit"])
          ELSE Set(t, EditNext(f, Skipped(f.cur, outcome)))
       /\ UNCHANGED <<probe, routes, mapping, feed, header_state, feed_channel_cache, now, msgs>>

\* what is left of the copy c once it is deleted at its destination
Tombstone(c) == [feed[c] EXCEPT !.content = <<>>, !.reference = None, !.alive = FALSE]

\* the outcomes of feed_message.edit and of http.delete_message on a copy
RemoteOutcomes(id, failures) ==
    failures \cup (IF feed[id].alive THEN {"ok"} ELSE {"not_found"})

\* await feed_message.edit(content=build_content(after, include_header), ...)
EditMirror(t, outcome) ==
    LET f == task[t]
        c == f.cur.feed_message_id
    IN /\ f.pc = "eedit"
       /\ outcome \in RemoteOutcomes(c, {"http"})
       /\ feed' = IF outcome = "ok"
                  THEN [feed EXCEPT ![c].content = build_content(f.msg, f.loc.include_header)]
                  ELSE feed
       /\ Set(t, EditNext(f, [mapping |-> f.cur, result |-> outcome, issued |-> TRUE,
                               allowed_mentions |-> AllowedMentions]))
       /\ UNCHANGED <<probe, routes, mapping, header_state, feed_channel_cache, now, msgs>>

\* await client.http.delete_message(feed_channel.id, feed_message_id, ...)
DeleteMirror(t, outcome) ==
    LET f == task[t]
        c == f.cur.feed_message_id
    IN /\ f.pc = "ddelete"
       /\ outcome \in RemoteOutcomes(c, {"forbidden", "other"})
       /\ feed' = IF outcome = "ok" THEN [feed EXCEPT ![c] = Tombstone(c)] ELSE feed
       /\ Set(t, DeleteNext(f, [mapping |-> f.cur, result |-> outcome]))
       /\ UNCHANGED <<probe, routes, mapping, header_state, feed_channel_cache, now, msgs>>

\* delete_one that leaves the document in place
delete_one_kept(id) == mapping

\* mapping_collection.delete_one({"_id": id})
delete_one(id) == {r \in mapping : r.id # id}

\* await mapping_collection.delete_one({"_id": mapping["_id"]}), lines 488 and 500
Unmap(t) ==
    LET f == task[t]
    IN /\ f.pc = "dunmap"
       /\ mapping' = delete_one(f.cur.id)
       /\ Set(t, [f EXCEPT !.pc = "loop"])
       /\ UNCHANGED <<probe, routes, feed, header_state, feed_channel_cache, now, msgs>>

\* ------------------------------------------- add- and remove-feed-channel
\* the update of add-feed-channel appending without looking at the entries
add_pipeline_appending(feed_channels, channel_id) == Append(feed_channels, channel_id)

\* the $set of add_feed_channel: $cond [$in [id, channel_ids], existing,
\* $concatArrays [existing, [entry]]]
add_pipeline(feed_channels, channel_id) ==
    IF channel_id \in Range(feed_channels) THEN feed_channels
    ELSE Append(feed_channels, channel_id)

\* the $set of remove_feed_channel: $filter on fc.channel_id # channel_id
remove_pipeline(feed_channels, channel_id) ==
    SelectSeq(feed_channels, LAMBDA fc : fc # channel_id)

\* /add-feed-channel channel_id in guild g runs in task t; ok: the channel
\* resolves, can receive messages and the relay may send there
AddFeedChannel(t, g, channel_id, ok) ==
    /\ task[t].pc = "idle"
    /\ Set(t, IF ok
              THEN [Idle EXCEPT !.kind = "add", !.msg.guild = g, !.dest = channel_id,
                                !.pc = "existing_route"]
              ELSE [Idle EXCEPT !.kind = "add", !.msg.guild = g, !.dest = channel_id,
                                !.last.outcome = "rejected", !.pc = "done"])
    /\ UNCHANGED <<probe, routes, mapping, feed, header_state, feed_channel_cache, now, msgs>>

\* existing_route = await routes_collection.find_one({_id, feed_channels.channel_id})
ExistingRoute(t) ==
    LET f == task[t]
        feed_channels == routes[f.msg.guild]
    IN /\ f.kind = "add" /\ f.pc = "existing_route"
       /\ Set(t, [f EXCEPT !.todo = IF f.dest \in Range(feed_channels)
                                     THEN feed_channels ELSE <<>>,
                           !.pc = "update"])
       /\ UNCHANGED <<probe, routes, mapping, feed, header_state, feed_channel_cache, now, msgs>>

\* await routes_collection.find_one_and_update(...) and the reply of add
AddUpdate(t) ==
    LET f == task[t]
    IN /\ f.kind = "add" /\ f.pc = "update"
       /\ routes' = [routes EXCEPT ![f.msg.guild] = add_pipeline(@, f.dest)]
       /\ Set(t, [f EXCEPT !.last.outcome = IF f.todo # <<>> THEN "already" ELSE "added",
                           !.pc = "done"])
       /\ UNCHANGED <<probe, mapping, feed, header_state, feed_channel_cache, now, msgs>>

\* /remove-feed-channel channel in guild g runs in task t
RemoveFeedChannel(t, g, channel_id) ==
    /\ task[t].pc = "idle"
    /\ Set(t, [Idle EXCEPT !.kind = "remove", !.msg.guild = g, !.dest = channel_id,
                           !.pc = "before"])
    /\ UNCHANGED <<probe, routes, mapping, feed, header_state, feed_channel_cache, now, msgs>>

\* before = await routes_collection.find_one({"_id": str(guild.id)})
Before(t) ==
    LET f == task[t]
    IN /\ f.kind = "remove" /\ f.pc = "before"
       /\ Set(t, [f EXCEPT !.todo = routes[f.msg.guild], !.pc = "update"])
       /\ UNCHANGED <<probe, routes, mapping, feed, header_state, feed_channel_cache, now, msgs>>

\* updated_route = await routes_collection.find_one_and_update(...) and the reply
RemoveUpdate(t) ==
    LET f == task[t]
        updated_route == remove_pipeline(routes[f.msg.guild], f.dest)
    IN /\ f.kind = "remove" /\ f.pc = "update"
       /\ routes' = [routes EXCEPT ![f.msg.guild] = updated_route]
       /\ Set(t, [f EXCEPT !.last.outcome = IF Len(f.todo) = Len(updated_route)
                                            THEN "not_configured" ELSE "removed",
                           !.pc = "done"])
       /\ UNCHANGED <<probe, mapping, feed, header_state, feed_channel_cache, now, msgs>>

\* ------------------------------------------------------------ environment
\* a moderator removes the mirrored copy c at its destination
RemoveCopy(c) ==
    /\ c \in DOMAIN feed
    /\ feed[c].alive
    /\ feed' = [feed EXCEPT ![c] = Tombstone(c)]
    /\ UNCHANGED <<probe, routes, mapping, header_state, feed_channel_cache, now, msgs, task>>

\* the process restarts: the in-memory state of bot.py is rebuilt empty
Restart ==
    /\ Quiet
    /\ header_state # <<>> \/ feed_channel_cache # <<>>
    /\ header_state' = <<>>
    /\ feed_channel_cache' = <<>>
    /\ UNCHANGED <<probe, routes, mapping, feed, now, msgs, task>>

\* the handler of task t has returned or raised; the task ends
Finish(t) ==
    /\ task[t].pc \in {"done", "raised"}
    /\ Set(t, Idle)
    /\ UNCHANGED <<probe, routes, mapping, feed, header_state, feed_channel_cache, now, msgs>>

\* time passes
Tick ==
    /\ now < MaxTime
    /\ now' = now + 1
    /\ probe' = [probe EXCEPT !.fn = IF @ = "none" THEN @ ELSE "elapsed"]
    /\ UNCHANGED <<routes, mapping, feed, header_state, feed_channel_cache, msgs, task>>

\* ---------------------------------------------------------- specification
\* the answers of the transport to a send while at most `limit` copies exist
Answers(limit) ==
    {"bad_reference", "stickers", "forbidden", "other"}
    \cup (IF Cardinality(DOMAIN feed) < limit THEN {"ok"} ELSE {})

\* the relay's member is known and has every permission or none
AllOrNothing ==
    {p \in Permissions : p.view_channel = p.send_messages
                         /\ p.send_messages = p.send_messages_in_threads}

\* mirroring a message that has no attachment, no sticker and no reply target
PlainStep(t) ==
    \/ Route(t)
    \/ \E ok \in BOOLEAN : Resolve(t, ok)
    \/ \E perms \in AllOrNothing : Check(t, perms, TRUE)
    \/ \E result \in Answers(MaxCopies) : Send(t, result)
    \/ Store(t)
    \/ Finish(t)

\* the same with any permissions at the destination
PermissionStep(t) ==
    \/ Route(t)
    \/ \E ok \in BOOLEAN : Resolve(t, ok)
    \/ \E perms \in Permissions, me \in BOOLEAN : Check(t, perms, me)
    \/ \E result \in Answers(MaxCopies) : Send(t, result)
    \/ Store(t)
    \/ Finish(t)

\* the steps attachments, stickers and reply targets add
RichStep(t) ==
    \/ \E ok \in BOOLEAN : Attach(t, ok)
    \/ Parent(t)
    \/ \E outcome \in {"ok", "not_found", "http"} : FetchParent(t, outcome)
    \/ \E result \in Answers(MaxCopies) : Retry(t, result)
    \/ \E ok \in BOOLEAN : Sticker(t, ok)
    \/ \E result \in Answers(MaxCopies) : Fallback(t, result)

\* the loop over the mappings of a source message, of the edit and delete handlers
LoopStep(t) ==
    \/ Find(t)
    \/ \E r \in task[t].cursor : NextMapping(t, r)
    \/ LoopEnd(t)
    \/ \E ok \in BOOLEAN : ResolveMapped(t, ok)

EditStep(t) ==
    \/ \E outcome \in {"ok", "not_found", "http"} : FetchMirror(t, outcome)
    \/ \E outcome \in {"ok", "not_found", "http"} : EditMirror(t, outcome)

DeleteStep(t) ==
    \/ \E outcome \in {"ok", "not_found", "forbidden", "other"} : DeleteMirror(t, outcome)
    \/ Unmap(t)

\* the payloads of the dispatcher scenarios: one body, one attachment at most
CorePayloads ==
    {p \in [stickers : 0..MaxStickers, attachments : 0..MaxAttachments, body : Bodies] :
        p.body = "text" /\ p.attachments \in {0, 1}}

\* the messages of the dispatcher scenarios: one author, in a guild channel
CoreMessages ==
    {m \in NewMessages :
        /\ m.author = 7 /\ m.channel # DM
        /\ [stickers |-> m.stickers, attachments |-> m.attachments, body |-> m.body]
               \in CorePayloads}

\* The dispatcher.  Events are handled one at a time: a handler starts when no
\* other is running.
Next ==
    \/ Quiet /\ \E m \in CoreMessages : Post(1, m)
    \/ Quiet /\ \E i \in DOMAIN msgs, p \in CorePayloads : Redeliver(1, i, p)
    \/ Quiet /\ \E c \in DOMAIN feed : DeliverCopy(1, c)
    \/ PlainStep(1)
    \/ RichStep(1)

Spec == Init /\ [][Next]_vars

\* ------------------------------------------------- edits and deletions
\* the payloads without sticker and attachment; an edit can empty the body
PlainPayloads ==
    {p \in [stickers : {0}, attachments : {0}, body : Bodies] : TRUE}

\* the messages without sticker, attachment and reply target, of one author
\* in one source channel
PlainMessages ==
    {m \in NewMessages :
        /\ m.author = 7 /\ m.channel = 1 /\ m.reply_to = None
        /\ m.stickers = 0 /\ m.attachments = 0}

\* The dispatcher of new and edited messages, with a moderator and restarts.
NextEdit ==
    \/ Quiet /\ \E m \in PlainMessages : Post(1, m)
    \/ Quiet /\ \E i \in DOMAIN msgs, p \in PlainPayloads : Edit(1, i, p)
    \/ \E c \in DOMAIN feed : RemoveCopy(c)
    \/ Restart
    \/ PlainStep(1)
    \/ LoopStep(1)
    \/ EditStep(1)

SpecEdit == Init /\ [][NextEdit]_vars

\* The dispatcher of new and deleted messages, with a moderator and restarts.
NextDelete ==
    \/ Quiet /\ \E m \in PlainMessages : Post(1, m)
    \/ Quiet /\ \E i \in DOMAIN msgs, raw \in BOOLEAN : Delete(1, i, raw)
    \/ \E c \in DOMAIN feed : RemoveCopy(c)
    \/ Restart
    \/ PlainStep(1)
    \/ LoopStep(1)
    \/ DeleteStep(1)

SpecDelete == Init /\ [][NextDelete]_vars

\* ------------------------------------------------- grouping over time
\* the messages of one author in one source channel, text only
GroupMessages == {m \in PlainMessages : m.body = "text"}

\* The dispatcher of new messages while time passes.
NextGroup ==
    \/ Quiet /\ \E m \in GroupMessages : Post(1, m)
    \/ Quiet /\ \E i \in DOMAIN msgs :
                   Redeliver(1, i, [stickers |-> 0, attachments |-> 0, body |-> "text"])
    \/ Tick
    \/ PlainStep(1)

SpecGroup == Init /\ [][NextGroup]_vars

\* the messages of one author in one source channel that carry files
FileMessages ==
    {m \in NewMessages :
        /\ m.author = 7 /\ m.channel = 1 /\ m.reply_to = None /\ m.body = "text"}

\* mirroring a message with attachments and stickers
FileStep(t) ==
    \/ Route(t)
    \/ \E ok \in BOOLEAN : Resolve(t, ok)
    \/ \E perms \in AllOrNothing : Check(t, perms, TRUE)
    \/ \E ok \in BOOLEAN : Attach(t, ok)
    \/ \E result \in Answers(MaxCopies) : Send(t, result)
    \/ \E ok \in BOOLEAN : Sticker(t, ok)
    \/ \E result \in Answers(MaxCopies) : Fallback(t, result)
    \/ Store(t)
    \/ Finish(t)

\* The dispatcher of new messages that carry files.
NextFile ==
    \/ Quiet /\ \E m \in FileMessages : Post(1, m)
    \/ FileStep(1)

SpecFile == Init /\ [][NextFile]_vars

\* the payload of a text message
TextPayload == [stickers |-> 0, attachments |-> 0, body |-> "text"]

\* The dispatcher of new messages of every kind and of their edits.
NextOutbound ==
    \/ Quiet /\ \E m \in {c \in CoreMessages : c.channel = 1} : Post(1, m)
    \/ Quiet /\ \E i \in DOMAIN msgs, p \in CorePayloads : Edit(1, i, p)
    \/ PlainStep(1)
    \/ RichStep(1)
    \/ LoopStep(1)
    \/ EditStep(1)

SpecOutbound == Init /\ [][NextOutbound]_vars

\* The dispatcher with two handlers in flight together, interleaving at their
\* awaits: a handler of a new message, and a handler of any event.
NextRace ==
    \/ task[1].pc = "idle" /\ \E m \in GroupMessages : Post(1, m)
    \/ \E t \in Tasks, i \in DOMAIN msgs : Redeliver(t, i, TextPayload)
    \/ \E i \in DOMAIN msgs : Edit(2, i, TextPayload)
    \/ \E i \in DOMAIN msgs, raw \in BOOLEAN : Delete(2, i, raw)
    \/ \E t \in Tasks : PlainStep(t)
    \/ \E t \in Tasks : LoopStep(t)
    \/ \E t \in Tasks : EditStep(t)
    \/ \E t \in Tasks : DeleteStep(t)

\* the source guild has one feed channel
InitRace == Init /\ routes[1] = <<2>>

SpecRace == InitRace /\ [][NextRace]_vars

\* The dispatcher with the two delete events of a source message in flight
\* together: on_message_delete runs in task 1, on_raw_message_delete in task 2.
NextTwoDeletes ==
    \/ Quiet /\ \E m \in GroupMessages : Post(1, m)
    \/ task[1].kind # "message" /\ \E i \in DOMAIN msgs : Delete(1, i, FALSE)
    \/ task[1].kind # "message" /\ \E i \in DOMAIN msgs : Delete(2, i, TRUE)
    \/ PlainStep(1)
    \/ Finish(2)
    \/ \E t \in Tasks : LoopStep(t)
    \/ \E t \in Tasks : DeleteStep(t)

SpecTwoDeletes == Init /\ [][NextTwoDeletes]_vars

\* mirroring a plain message, get_feed_channel taken at its await
CacheStep(t) ==
    \/ Route(t)
    \/ \E hit \in BOOLEAN : Lookup(t, hit)
    \/ \E ok \in BOOLEAN : FetchChannel(t, ok)
    \/ \E perms \in AllOrNothing : Check(t, perms, TRUE)
    \/ \E result \in Answers(MaxCopies) : Send(t, result)
    \/ Store(t)
    \/ Finish(t)

\* The dispatcher with two handlers of new messages resolving feed channels.
NextCache ==
    \/ Quiet /\ \E m \in GroupMessages : Post(1, m)
    \/ \E i \in DOMAIN msgs : Redeliver(2, i, TextPayload)
    \/ \E t \in Tasks : CacheStep(t)

SpecCache == Init /\ [][NextCache]_vars

\* The slash commands that configure the routes, two in flight together.
NextRoutes ==
    \/ \E t \in Tasks, g \in Guilds, ok \in BOOLEAN :
          \E c \in FeedCandidates(g) : AddFeedChannel(t, g, c, ok)
    \/ \E t \in Tasks, g \in Guilds :
          \E c \in FeedCandidates(g) : RemoveFeedChannel(t, g, c)
    \/ \E t \in Tasks : ExistingRoute(t)
    \/ \E t \in Tasks : AddUpdate(t)
    \/ \E t \in Tasks : Before(t)
    \/ \E t \in Tasks : RemoveUpdate(t)
    \/ \E t \in Tasks : Finish(t)

SpecRoutes == Init /\ [][NextRoutes]_vars

\* build_content formats the name of a source channel or of a thread's parent
FormatName(name) ==
    /\ probe' = [fn |-> "extract_channel_name_parts", name |-> name,
                 out |-> extract_channel_name_parts(name)]
    /\ UNCHANGED <<routes, mapping, feed, header_state, feed_channel_cache, now, msgs, task>>

\* The channel names build_content meets.
NextName == \E name \in Names : FormatName(name)

SpecName == Init /\ [][NextName]_vars

\* the mirror of source message i to a destination has its send under way or
\* done, and its mapping is not stored yet
InFlight(t, i) ==
    /\ task[t].kind = "message"
    /\ task[t].msg.id = i
    /\ task[t].pc \in {"send", "store"}

\* the payload of an edit that changes the text
EditedPayload == [stickers |-> 0, attachments |-> 0, body |-> "-# small"]

\* the loop of the edit and delete handlers when the transport answers every
\* call: channels resolve, and a call fails only on a copy that is gone
ReliableLoopStep(t) ==
    \/ Find(t)
    \/ \E r \in task[t].cursor : NextMapping(t, r)
    \/ LoopEnd(t)
    \/ ResolveMapped(t, TRUE)
    \/ \E outcome \in {"ok", "not_found"} : FetchMirror(t, outcome)
    \/ \E outcome \in {"ok", "not_found"} : EditMirror(t, outcome)
    \/ \E outcome \in {"ok", "not_found"} : DeleteMirror(t, outcome)
    \/ Unmap(t)

\* The dispatcher when the edit or the delete of a source message arrives
\* while the mirror of that message is in flight: handle_message runs in
\* task 1, the handler of the later event in task 2.
NextInFlight ==
    \/ Quiet /\ \E m \in GroupMessages : Post(1, m)
    \/ \E i \in DOMAIN msgs : InFlight(1, i) /\ Edit(2, i, EditedPayload)
    \/ \E i \in DOMAIN msgs, raw \in BOOLEAN : InFlight(1, i) /\ Delete(2, i, raw)
    \/ PlainStep(1)
    \/ ReliableLoopStep(2)
    \/ Finish(2)

SpecInFlight == Init /\ [][NextInFlight]_vars

\* The dispatcher of new messages, of their deletes, and of new-message
\* events delivered once more, one handler at a time.
NextReplay ==
    \/ Quiet /\ \E m \in GroupMessages : Post(1, m)
    \/ Quiet /\ \E i \in DOMAIN msgs, raw \in BOOLEAN : Delete(1, i, raw)
    \/ Quiet /\ \E i \in DOMAIN msgs : Redeliver(1, i, TextPayload)
    \/ PlainStep(1)
    \/ LoopStep(1)
    \/ DeleteStep(1)

SpecReplay == Init /\ [][NextReplay]_vars

\* The dispatcher with the handlers of two new messages in flight together
\* while time passes.
NextClock ==
    \/ \E t \in Tasks : task[t].pc = "idle" /\ \E m \in GroupMessages : Post(t, m)
    \/ Tick
    \/ \E t \in Tasks : PlainStep(t)

SpecClock == InitRace /\ [][NextClock]_vars

\* the text messages of one author in one source channel, replies among them
RunMessages ==
    {m \in NewMessages :
        /\ m.author = 7 /\ m.channel = 1 /\ m.body = "text"
        /\ m.stickers = 0 /\ m.attachments = 0}

\* mirroring a text message that may be a reply
ReplyStep(t) ==
    \/ Route(t)
    \/ \E ok \in BOOLEAN : Resolve(t, ok)
    \/ \E perms \in AllOrNothing : Check(t, perms, TRUE)
    \/ Parent(t)
    \/ \E outcome \in {"ok", "not_found", "http"} : FetchParent(t, outcome)
    \/ \E result \in Answers(MaxRunMsgs) : Send(t, result)
    \/ \E result \in Answers(MaxRunMsgs) : Retry(t, result)
    \/ Store(t)
    \/ Finish(t)

\* The dispatcher of one author's run of messages, handled one at a time
\* while time passes. Time is counted from the delivery of the first mirrored
\* copy: until then the grouping state is empty and no decision looks at the
\* clock, so the first copy is decided at time 0.
NextRun ==
    \/ Quiet /\ \E m \in RunMessages : PostWithin(1, m, MaxRunMsgs)
    \/ feed # <<>> /\ Tick
    \/ ReplyStep(1)

SpecRun == InitRace /\ [][NextRun]_vars

\* the text messages of two authors in one source channel
AuthorMessages ==
    {m \in NewMessages :
        /\ m.channel = 1 /\ m.reply_to = None /\ m.body = "text"
        /\ m.stickers = 0 /\ m.attachments = 0}

\* mirroring a text message while duplicates of events are handled
DuplicateStep(t) ==
    \/ Route(t)
    \/ \E ok \in BOOLEAN : Resolve(t, ok)
    \/ \E perms \in AllOrNothing : Check(t, perms, TRUE)
    \/ \E result \in Answers(MaxRaceCopies) : Send(t, result)
    \/ Store(t)
    \/ Finish(t)

\* The dispatcher with two handlers of new-message events in flight together.
NextDuplicate ==
    \/ task[1].pc = "idle" /\ \E m \in AuthorMessages : Post(1, m)
    \/ \E t \in Tasks, i \in DOMAIN msgs : Redeliver(t, i, TextPayload)
    \/ \E t \in Tasks : DuplicateStep(t)

SpecDuplicate == InitRace /\ [][NextDuplicate]_vars

\* The dispatcher of new messages, the relay's permissions being anything.
NextPermission ==
    \/ Quiet /\ \E m \in PlainMessages : Post(1, m)
    \/ PermissionStep(1)

SpecPermission == Init /\ [][NextPermission]_vars

\* --------------------------------------------- FeedHeaderState on its own
\* header_state.should_include_header(d, c, a, r, now) is called
HeaderAsk(d, c, a, r) ==
    /\ probe.fn # "should_include_header"
    /\ probe' = [fn |-> "should_include_header", feed_channel_id |-> d,
                 source_channel_id |-> c, author_id |-> a, is_reply |-> r,
                 out |-> should_include_header(header_state, d, c, a, r, now)]
    /\ UNCHANGED <<routes, mapping, feed, header_state, feed_channel_cache, now, msgs, task>>

\* header_state.update(d, c, a, now) is called for the message just asked about
HeaderUpdate ==
    /\ probe.fn = "should_include_header"
    /\ header_state' = update(header_state, probe.feed_channel_id,
                              probe.source_channel_id, probe.author_id, now)
    /\ probe' = [probe EXCEPT !.fn = "update"]
    /\ UNCHANGED <<routes, mapping, feed, feed_channel_cache, now, msgs, task>>

\* the calls a dispatcher can make on the header state, as time passes
NextHeader ==
    \/ \E d \in FeedCandidates(1), c \in Channels \ {2}, a \in Users, r \in BOOLEAN :
           HeaderAsk(d, c, a, r)
    \/ HeaderUpdate
    \/ Tick

SpecHeader == Init /\ [][NextHeader]_vars

\* ------------------------------------------------------------------ claims
\* the mirrored copies ever delivered to destination d for source message s
CopiesOf(s, d) == {c \in DOMAIN feed : feed[c].source = s /\ feed[c].channel = d}

\* the frames of handle_message
MessageFrames == {task[t] : t \in {u \in Tasks : task[u].kind = "message"}}

\* C1: once the mapping of (source message, destination) is stored, mirroring
\* the message to that destination again is a no-op: the call that finds the
\* mapping makes no send, and there is exactly one mapping record and exactly
\* one mirrored copy for the pair.
C1_SecondMirrorIsNoOp ==
    /\ \A s \in DOMAIN msgs, d \in Channels :
          find_one(mapping_id(s, d)) # {} =>
              /\ Cardinality(find_one(mapping_id(s, d))) = 1
              /\ Cardinality(CopiesOf(s, d)) = 1
    /\ \A f \in MessageFrames :
          f.last.outcome = "skip" =>
              /\ f.last.loc.attempts = <<>>
              /\ Cardinality(find_one(mapping_id(f.msg.id, f.last.dest))) = 1
              /\ Cardinality(CopiesOf(f.msg.id, f.last.dest)) = 1

\* C1 witness: a second mirroring found the mapping and returned
C1_Witness ==
    \E f \in MessageFrames : f.last.outcome = "skip"

\* C2 (as claimed): no message authored in a channel that is a feed channel of
\* any guild's route is mirrored: it has no mirrored copy and no mapping.
C2_NeverMirrorsFeedChannelMessages ==
    \A s \in DOMAIN msgs :
        (\E g \in Guilds : msgs[s].channel \in Range(routes[g])) =>
            /\ \A c \in DOMAIN feed : feed[c].source # s
            /\ find(s) = {}

\* C4: should_include_header is true for every reply, true when the
\* destination has no recorded state, true when the recorded source channel or
\* author differs, and otherwise true exactly when now minus the recorded
\* timestamp is at least 5 minutes.
C4_HeaderDecision ==
    probe.fn = "should_include_header" =>
        LET d == probe.feed_channel_id
            recorded == d \in DOMAIN header_state
        IN /\ probe.is_reply => probe.out
           /\ ~recorded => probe.out
           /\ recorded /\ header_state[d].source_channel_id # probe.source_channel_id
                  => probe.out
           /\ recorded /\ header_state[d].author_id # probe.author_id => probe.out
           /\ /\ ~probe.is_reply /\ recorded
              /\ header_state[d].source_channel_id = probe.source_channel_id
              /\ header_state[d].author_id = probe.author_id
              => (probe.out <=> now - header_state[d].timestamp >= 5)

\* C4 witness: a non-reply of the recorded author and channel, asked exactly
\* 5 minutes after the recorded timestamp, gets a header
C4_Witness ==
    /\ probe.fn = "should_include_header"
    /\ ~probe.is_reply
    /\ probe.feed_channel_id \in DOMAIN header_state
    /\ header_state[probe.feed_channel_id].source_channel_id = probe.source_channel_id
    /\ header_state[probe.feed_channel_id].author_id = probe.author_id
    /\ now - header_state[probe.feed_channel_id].timestamp = 5
    /\ probe.out

\* C3: a message authored by the relay itself is never mirrored: its handler
\* returns before reading the route, so no mapping and no mirrored copy has a
\* mirrored copy as its source.
C3_NoMirrorOfMirror ==
    /\ \A f \in MessageFrames :
          f.msg.author = Bot =>
              f.pc = "done" /\ f.last = NoCall /\ f.todo = <<>>
    /\ \A r \in mapping : r.source_message_id \notin DOMAIN feed
    /\ \A c \in DOMAIN feed : feed[c].source \notin DOMAIN feed

\* C3 witness: the relay's own mirrored copy was delivered as a new message
C3_Witness ==
    \E f \in MessageFrames : f.msg.author = Bot /\ f.msg.id \in DOMAIN feed /\ f.pc = "done"

\* the frames of handle_message whose call for a reply has just sent the copy
ReplySent == {f \in MessageFrames : f.pc = "store" /\ f.msg.reply_to # None}

\* the mirror of f's reply target at f's destination, None when it has no mapping
ParentMirror(f) ==
    LET found == find_one(mapping_id(f.msg.reply_to, f.dest))
    IN IF found = {} THEN None ELSE (CHOOSE r \in found : TRUE).feed_message_id

\* C5 (as claimed): if B replies to A and A has a mapping at destination D
\* with mirror A', B's copy at D is sent as a reply to A'; if A has no mapping
\* at D, B's copy is sent without a reply reference.
C5_RepliesCarryReference ==
    \A f \in ReplySent : feed[f.loc.feed_message].reference = ParentMirror(f)

\* C5 (amended): if A has a mapping at D with mirror A', A' is fetched, the
\* first send of B's copy carries the reference A' exactly when the fetch
\* succeeded, and B's copy is a reply to A' exactly when the fetch succeeded
\* and the first send delivered it; every later send carries no reference.  If
\* A has no mapping at D nothing is fetched, the sends carry no reference, and
\* the missing mapping raises no error.
C5_RepliesCarryFetchedReference ==
    /\ \A f \in ReplySent :
          LET L == f.loc
              first == L.attempts[1]
              linked == L.fetched = "ok" /\ first.result = "ok"
          IN /\ (L.fetched # "none") <=> (ParentMirror(f) # None)
             /\ first.reference = IF L.fetched = "ok" THEN ParentMirror(f) ELSE None
             /\ feed[L.feed_message].reference = IF linked THEN ParentMirror(f) ELSE None
             /\ \A i \in 2..Len(L.attempts) : L.attempts[i].reference = None
    /\ \A f \in MessageFrames :
          /\ f.pc = "send" /\ f.msg.reply_to # None /\ ParentMirror(f) = None
          => f.loc.exc = "none" /\ f.loc.parent_reference = None

\* C5 witness: B's copy was delivered as a reply to the mirror of its target
C5_Witness ==
    \E f \in ReplySent :
        /\ ParentMirror(f) # None
        /\ feed[f.loc.feed_message].reference = ParentMirror(f)

\* C8 (as claimed): a send failure at one destination, all fallbacks
\* exhausted, does not prevent mirroring to the remaining destinations of the
\* route: when the handler ends on the failure, no destination after the
\* failed one is left.
C8_FailureDoesNotBlockOthers ==
    \A f \in MessageFrames :
        /\ f.pc = "raised"
        /\ f.last.loc.exc \in {"bad_reference", "stickers", "other"}
        => Tail(f.todo) = <<>>

\* the locals of the calls of mirror_message_to_feed_channel in progress or
\* just ended
CallLocals == {f.loc : f \in MessageFrames} \cup {f.last.loc : f \in MessageFrames}

\* C9 (as claimed): a retry with the reply reference cleared is made at most
\* once, and only when the first send failed because of an invalid reply
\* reference.
C9_RetryOnlyForInvalidReference ==
    \A L \in CallLocals :
        LET retries == {i \in 1..Len(L.attempts) : L.attempts[i].phase = "no_reference"}
        IN /\ Cardinality(retries) <= 1
           /\ retries # {} => L.attempts[1].result = "bad_reference"

\* the calls of mirror_message_to_feed_channel that have ended by storing the
\* mapping or by raising
EndedCalls == {f \in MessageFrames : f.last.outcome \in {"sent", "raised"}}

\* C10: when the sends with stickers have failed, each sticker is read as a
\* file, a sticker that cannot be read is skipped, and exactly when at least
\* one file was obtained one further send is made, the last of the call; it
\* carries no stickers and carries the attachments together with the sticker
\* files.  In every other case no such send is made.
C10_StickerFallback ==
    \A f \in EndedCalls :
        LET L == f.last.loc
            n == Len(L.attempts)
            fallbacks == {i \in 1..n : L.attempts[i].phase = "fallback"}
            before == {i \in 1..n : L.attempts[i].phase # "fallback"}
            failed == before # {} /\ \A i \in before : L.attempts[i].result # "ok"
        IN IF failed /\ f.msg.stickers > 0
           THEN /\ L.sticker_idx = f.msg.stickers
                /\ L.fallback_sticker_files <= f.msg.stickers
                /\ IF L.fallback_sticker_files >= 1
                   THEN /\ fallbacks = {n}
                        /\ L.attempts[n].stickers = 0
                        /\ L.attempts[n].files = f.msg.attachments + L.fallback_sticker_files
                   ELSE fallbacks = {} /\ f.last.outcome = "raised"
           ELSE fallbacks = {} /\ L.sticker_idx = 0

\* C10 witness: of two stickers one could not be read; the fallback send
\* delivered the copy with the attachment and the other sticker's file
C10_Witness ==
    \E f \in EndedCalls :
        LET L == f.last.loc
        IN /\ f.last.outcome = "sent"
           /\ f.msg.stickers = 2 /\ f.msg.attachments = 1
           /\ L.fallback_sticker_files = 1
           /\ L.attempts[Len(L.attempts)].phase = "fallback"

\* the mapping records of source message s
MappingsOf(s) == {r \in mapping : r.source_message_id = s}

\* the step of an edit handler that has just visited one more mapping
EditVisit(t) ==
    /\ task[t].kind = "edit"
    /\ task'[t].kind = "edit"
    /\ Len(task'[t].edits) = Len(task[t].edits) + 1

\* C6: handling an edit of a source message visits every mapping of that
\* message once and, where the transport lets it resolve the channel, fetch
\* the copy and edit it, gives the mirrored copy the content rebuilt from the
\* edited message; no step of the handler changes any other copy, sends a
\* message, or changes a mapping.
C6_EditFanOut ==
    /\ [](\A t \in Tasks :
            task[t].kind = "edit" /\ task[t].pc = "done" /\ task[t].msg.guild # None =>
                /\ {e.mapping : e \in Range(task[t].edits)} = MappingsOf(task[t].msg.id)
                /\ Len(task[t].edits) = Cardinality(MappingsOf(task[t].msg.id)))
    /\ [][\A t \in Tasks :
            task[t].kind = "edit" /\ task'[t] # task[t] =>
                /\ mapping' = mapping
                /\ DOMAIN feed' = DOMAIN feed
                /\ \A c \in DOMAIN feed :
                      feed'[c] # feed[c] =>
                          /\ EditVisit(t)
                          /\ c = task[t].cur.feed_message_id
                          /\ task[t].cur \in MappingsOf(task[t].msg.id)
                /\ EditVisit(t) /\ task'[t].edits[Len(task'[t].edits)].result = "ok" =>
                      LET c == task[t].cur.feed_message_id
                      IN feed'[c] =
                             [feed[c] EXCEPT !.content =
                                  build_content(task[t].msg,
                                                content_has_header(feed[c].content))]]_vars

\* C6 witness: an edit of a message mirrored to two destinations has edited
\* both copies
C6_Witness ==
    \E t \in Tasks :
        /\ task[t].kind = "edit" /\ task[t].pc = "done"
        /\ Len(task[t].edits) = 2
        /\ \A i \in 1..2 :
              /\ task[t].edits[i].result = "ok"
              /\ feed[task[t].edits[i].mapping.feed_message_id].content
                     = <<"-# header">> \o <<task[t].msg.body>>
        /\ task[t].msg.body = "-# small"

\* C7: after a delete of a source message has been handled, no mapping record
\* with that source message id remains, whatever each remote delete call did:
\* success, not-found, forbidden, any other error, or an unresolvable channel.
C7_DeleteRemovesMappings ==
    \A t \in Tasks :
        task[t].kind = "delete" /\ task[t].pc = "done" =>
            /\ MappingsOf(task[t].msg.id) = {}
            /\ \A e \in Range(task[t].deletes) :
                  e.result \in {"ok", "not_found", "forbidden", "other", "unresolved"}

\* C7 witness: a delete was handled for a message mirrored to two
\* destinations; one remote delete was forbidden and one channel did not resolve
C7_Witness ==
    \E t \in Tasks :
        /\ task[t].kind = "delete" /\ task[t].pc = "done"
        /\ {e.result : e \in Range(task[t].deletes)} = {"forbidden", "unresolved"}

\* the order of the sends of one call
PhaseRank(phase) ==
    IF phase = "initial" THEN 1 ELSE IF phase = "no_reference" THEN 2 ELSE 3

\* C11: for one new-message event and one destination at most three sends are
\* made, in the order initial, without reply reference, with fallback sticker
\* files, each at most once; when every send that was made has failed, the
\* failure leaves the handler, which makes no further attempt, and no mapping
\* of (source message, destination) exists.
C11_BoundedAttempts ==
    /\ \A L \in CallLocals :
          /\ Len(L.attempts) <= 3
          /\ L.attempts # <<>> => L.attempts[1].phase = "initial"
          /\ \A i, j \in 1..Len(L.attempts) :
                i < j => PhaseRank(L.attempts[i].phase) < PhaseRank(L.attempts[j].phase)
    /\ \A f \in MessageFrames :
          LET L == f.last.loc
          IN /\ f.last.outcome # "none"
             /\ L.attempts # <<>>
             /\ \A i \in 1..Len(L.attempts) : L.attempts[i].result # "ok"
             => /\ f.pc = "raised"
                /\ f.last.outcome = "raised"
                /\ f.loc = Locals
                /\ \A r \in mapping :
                      ~(r.source_message_id = f.msg.id /\ r.feed_channel_id = f.last.dest)
                /\ \A c \in DOMAIN feed :
                      ~(feed[c].source = f.msg.id /\ feed[c].channel = f.last.dest)

\* C11 witness: the initial send, the send without reference and the send with
\* fallback files have all failed
C11_Witness ==
    \E f \in MessageFrames :
        /\ f.pc = "raised"
        /\ Len(f.last.loc.attempts) = 3
        /\ \A i \in 1..3 : f.last.loc.attempts[i].result # "ok"

\* the grouping state of destination d, as a set: empty when nothing is recorded
GroupingOf(state, d) == IF d \in DOMAIN state THEN {state[d]} ELSE {}

\* the step of task t is a send that delivered a copy to destination d
DeliveredTo(t, d) ==
    /\ task[t].kind = "message"
    /\ task[t].dest = d
    /\ task[t].pc \in {"send", "retry", "fallback"}
    /\ task'[t].pc = "store"
    /\ \E c \in DOMAIN feed' \ DOMAIN feed : feed'[c].channel = d

\* C12: the grouping state of destination D changes only in the step of a
\* successful send to D, and every successful send to D makes it exactly
\* (source channel, author, decision time) of the message sent; failed sends,
\* abstentions, skips and mirrors to other destinations leave it unchanged.
C12_GroupingStateFrame ==
    [][\A d \in Channels :
          /\ GroupingOf(header_state', d) # GroupingOf(header_state, d)
                => \E t \in Tasks : DeliveredTo(t, d)
          /\ \A t \in Tasks :
                DeliveredTo(t, d) =>
                    GroupingOf(header_state', d) =
                        {[author_id |-> task[t].msg.author,
                          source_channel_id |-> task[t].msg.channel,
                          timestamp |-> task[t].loc.current_time]}]_vars

\* C12 witness: a copy was sent some time after its header decision, and the
\* grouping state of its destination holds the decision time
C12_Witness ==
    \E f \in MessageFrames :
        /\ f.pc = "store"
        /\ f.loc.current_time < now
        /\ header_state[f.dest] = [author_id |-> f.msg.author, source_channel_id |-> f.msg.channel,
                                   timestamp |-> f.loc.current_time]

\* C14 (as claimed): if the relay lacks view or send capability at a
\* destination, mirroring to it abstains: no send is attempted, no mapping is
\* created, no error is raised, and mirroring goes on with the next destination.
C14_AbstainsWithoutCapability ==
    /\ \A L \in CallLocals : ~L.allowed => L.attempts = <<>>
    /\ \A f \in MessageFrames :
          f.last.outcome # "none" /\ ~f.last.loc.allowed =>
              /\ f.last.outcome = "abstain"
              /\ f.pc \in {"resolve", "done"}
              /\ \A r \in mapping :
                    ~(r.source_message_id = f.msg.id /\ r.feed_channel_id = f.last.dest)

\* C13: every stored mapping keyed (source message, destination) records the
\* source message id, the guild of the source message, the destination, and as
\* feed_message_id the id of the copy of that message delivered to that
\* destination by the send that succeeded; no mapping exists for a pair to
\* which no send succeeded.
C13_MappingFields ==
    /\ \A r \in mapping :
          /\ r.id = <<r.source_message_id, r.feed_channel_id>>
          /\ r.source_message_id \in DOMAIN msgs
          /\ r.source_guild_id = guildOf(msgs[r.source_message_id].channel)
          /\ r.feed_message_id \in DOMAIN feed
          /\ feed[r.feed_message_id].source = r.source_message_id
          /\ feed[r.feed_message_id].channel = r.feed_channel_id
    /\ \A f \in MessageFrames :
          f.last.outcome = "sent" =>
              LET L == f.last.loc
                  a == L.attempts[Len(L.attempts)]
              IN /\ a.result = "ok"
                 /\ \E r \in mapping :
                       /\ r.id = <<f.msg.id, f.last.dest>>
                       /\ r.feed_message_id = a.id

\* C13 witness: the mapping of a copy that the send without reply reference
\* delivered
C13_Witness ==
    \E f \in MessageFrames :
        /\ f.last.outcome = "sent"
        /\ Len(f.last.loc.attempts) = 2
        /\ f.last.loc.attempts[2].phase = "no_reference"
        /\ \E r \in mapping :
              r.id = <<f.msg.id, f.last.dest>> /\ r.feed_message_id = f.last.loc.attempts[2].id

\* C15 (as claimed): on every exit path of mirroring one message to one
\* destination, every file handle opened for an attachment or a sticker
\* during the call has been released when the call returns or raises.
C15_FilesReleased ==
    \A f \in MessageFrames :
        f.last.outcome # "none" => f.last.closed = f.last.loc.opened

\* C16: in every reachable state, under any interleaving of new-message, edit
\* and delete handlers, the mapping store holds at most one mapping per
\* (source_message_id, feed_channel_id) pair.
C16_OneMappingPerPair ==
    \A r1, r2 \in mapping :
        r1.source_message_id = r2.source_message_id /\ r1.feed_channel_id = r2.feed_channel_id
            => r1 = r2

\* C16 witness: an insert for a pair that already has a mapping was refused
C16_Witness ==
    \E t \in Tasks :
        /\ task[t].kind = "message"
        /\ task[t].last.loc.exc = "duplicate_key"
        /\ \E r \in mapping :
              /\ r.source_message_id = task[t].msg.id
              /\ r.feed_channel_id = task[t].last.dest
              /\ r.feed_message_id # task[t].last.loc.feed_message

\* C17: every outbound send (initial, without reply reference, with fallback
\* files) and every outbound edit carries the mentions policy that suppresses
\* user, role, everyone and replied-user notifications.
C17_MentionsSuppressed ==
    \A t \in Tasks :
        /\ \A L \in {task[t].loc, task[t].last.loc} :
              \A i \in 1..Len(L.attempts) :
                  L.attempts[i].allowed_mentions =
                      [users |-> FALSE, roles |-> FALSE, everyone |-> FALSE,
                       replied_user |-> FALSE]
        /\ \A i \in 1..Len(task[t].edits) :
              task[t].edits[i].issued =>
                  task[t].edits[i].allowed_mentions =
                      [users |-> FALSE, roles |-> FALSE, everyone |-> FALSE,
                       replied_user |-> FALSE]

\* the phases of the sends of the call that has just ended in task t
PhasesOf(t) ==
    {task[t].last.loc.attempts[i].phase : i \in 1..Len(task[t].last.loc.attempts)}

\* C17 witness: a call has made all three sends
C17_Witness ==
    \E t \in Tasks : PhasesOf(t) = {"initial", "no_reference", "fallback"}

\* C18 (as claimed): when two handlings of the same source message for the
\* same destination interleave at their awaits, at most one mirrored copy is
\* delivered to that destination.
C18_OneCopyPerPair ==
    \A s \in DOMAIN msgs, d \in Channels : Cardinality(CopiesOf(s, d)) <= 1

\* the copies delivered to the destination of copy c before c
EarlierAt(c) == {b \in DOMAIN feed : b < c /\ feed[b].channel = feed[c].channel}

\* the copy delivered to the destination of c immediately before c
PreviousAt(c) == CHOOSE b \in EarlierAt(c) : \A e \in EarlierAt(c) : e <= b

\* C19 (as claimed): under any interleaving of new-message handlers, a copy
\* delivered to destination D without a header follows immediately a copy at
\* D that came from the same source channel and the same author.
C19_HeaderlessFollowsSameAuthor ==
    \A c \in DOMAIN feed :
        feed[c].alive /\ ~content_has_header(feed[c].content) =>
            /\ EarlierAt(c) # {}
            /\ msgs[feed[PreviousAt(c)].source].channel = msgs[feed[c].source].channel
            /\ msgs[feed[PreviousAt(c)].source].author = msgs[feed[c].source].author

\* the content carries the header line build_content puts first
HasHeaderLine(content) == content # <<>> /\ content[1] = "-# header"

\* C20: when an edit is propagated, the copy is rebuilt with a header if and
\* only if the content stored in the copy begins with the header-line marker;
\* a copy whose stored content is empty is rebuilt without a header.
C20_EditHeaderFromStoredContent ==
    [][\A t \in Tasks :
          EditVisit(t) /\ task'[t].edits[Len(task'[t].edits)].result = "ok" =>
              LET c == task[t].cur.feed_message_id
                  stored == feed[c].content
              IN /\ HasHeaderLine(feed'[c].content)
                        <=> (stored # <<>> /\ StartsWithMarker(stored[1]))
                 /\ stored = <<>> => ~HasHeaderLine(feed'[c].content)]_vars

\* C20 witness: an edit has rebuilt a copy with the header line, another
\* edit has left a copy with an empty content
C20_Witness ==
    \E t \in Tasks :
        /\ task[t].kind = "edit"
        /\ \E i \in 1..Len(task[t].edits) :
              /\ task[t].edits[i].result = "ok"
              /\ feed[task[t].edits[i].mapping.feed_message_id].content
                     = <<"-# header", "text">>
        /\ \E c \in DOMAIN feed : feed[c].alive /\ feed[c].content = <<>>

\* C21: while an edit is propagated, a failure at one destination (channel
\* unresolvable, copy not found, transport error on fetch or on edit) is
\* skipped: the handler never ends on an exception, the step that meets the
\* failure keeps the mappings still to visit and changes no copy, and when
\* the handler is done every mapping of the message has been visited.
C21_EditFailureSkipped ==
    /\ [](\A t \in Tasks :
            task[t].kind = "edit" =>
                /\ task[t].pc # "raised"
                /\ task[t].pc = "done" /\ task[t].msg.guild # None =>
                       \A r \in {m \in mapping : m.source_message_id = task[t].msg.id} :
                           \E i \in 1..Len(task[t].edits) : task[t].edits[i].mapping = r)
    /\ [][\A t \in Tasks :
            EditVisit(t) /\ task'[t].edits[Len(task'[t].edits)].result # "ok" =>
                /\ task'[t].pc = "loop"
                /\ task'[t].cursor = task[t].cursor
                /\ feed' = feed]_vars

\* C21 witness: the edit failed at the first destination and was applied at
\* the second
C21_Witness ==
    \E t \in Tasks :
        /\ task[t].kind = "edit" /\ task[t].pc = "done"
        /\ Len(task[t].edits) = 2
        /\ task[t].edits[1].result \in {"unresolved", "not_found", "http"}
        /\ task[t].edits[2].result = "ok"
        /\ feed[task[t].edits[2].mapping.feed_message_id].content
               \in {build_content(task[t].msg, TRUE), build_content(task[t].msg, FALSE)}

\* C22: when the hydrated delete event and the raw delete payload of one
\* source message are both handled, in either order or interleaved, neither
\* handler ends on an exception; the handler that finds a copy already
\* deleted goes on to remove its mapping; and once both have returned no
\* mapping of the message is left and every copy one of them found missing
\* is gone.
C22_TwoDeletesAsOne ==
    /\ [](\A t \in Tasks : task[t].kind = "delete" => task[t].pc # "raised")
    /\ []((/\ task[1].kind = "delete" /\ task[1].pc = "done"
           /\ task[2].kind = "delete" /\ task[2].pc = "done"
           /\ task[1].msg.id = task[2].msg.id)
          => /\ {r \in mapping : r.source_message_id = task[1].msg.id} = {}
             /\ \A t \in Tasks : \A e \in Range(task[t].deletes) :
                   e.result = "not_found" => ~feed[e.mapping.feed_message_id].alive)
    /\ [][\A t \in Tasks :
            /\ task[t].pc = "ddelete" /\ task'[t].pc # "ddelete"
            /\ ~feed[task[t].cur.feed_message_id].alive
            => /\ task'[t].pc = "dunmap"
               /\ feed' = feed]_vars

\* C22 witness: the two handlers interleaved over a message mirrored to two
\* destinations; each deleted one copy and found the other already gone
C22_Witness ==
    /\ task[1].kind = "delete" /\ task[1].pc = "done"
    /\ task[2].kind = "delete" /\ task[2].pc = "done"
    /\ task[1].msg.id = task[2].msg.id
    /\ \A t \in Tasks :
          /\ Len(task[t].deletes) = 2
          /\ {e.result : e \in Range(task[t].deletes)} = {"ok", "not_found"}

\* the step of task t is the end of its get_feed_channel for f.dest, failed
ResolutionFailed(t) ==
    /\ task[t].pc \in {"resolve", "fetch_channel"}
    /\ task'[t].pc = "route" \/ task'[t].pc = "done"
    /\ task'[t].last.outcome = "unresolved"

\* C23 as stated: an entry of the cache is never removed or replaced
C23_EntryNeverReplaced ==
    [][\A d \in DOMAIN feed_channel_cache :
          /\ d \in DOMAIN feed_channel_cache'
          /\ feed_channel_cache'[d] = feed_channel_cache[d]]_vars

\* C23: the ids the cache holds only grow. An id is added by a resolution of
\* that id that got a channel; a failed resolution leaves the cache as it
\* was; a lookup that starts when the id is cached goes on with the cached
\* handle and changes nothing; and the handle of a cached id is replaced only
\* by a resolution that was already waiting for fetch_channel.
C23_CachedIdsOnlyGrow ==
    [][/\ DOMAIN feed_channel_cache \subseteq DOMAIN feed_channel_cache'
       /\ \A d \in DOMAIN feed_channel_cache' \ DOMAIN feed_channel_cache :
             \E t \in Tasks :
                /\ task[t].pc \in {"resolve", "fetch_channel"} /\ task[t].dest = d
                /\ task'[t].pc = "check"
       /\ \A t \in Tasks :
             ResolutionFailed(t) => feed_channel_cache' = feed_channel_cache
       /\ \A t \in Tasks :
             /\ task[t].pc = "resolve" /\ task'[t].pc # "resolve"
             /\ task[t].dest \in DOMAIN feed_channel_cache
             => /\ task'[t].pc = "check"
                /\ feed_channel_cache' = feed_channel_cache
       /\ \A d \in DOMAIN feed_channel_cache :
             d \in DOMAIN feed_channel_cache' /\ feed_channel_cache'[d] # feed_channel_cache[d]
             => \E t \in Tasks :
                   task[t].pc = "fetch_channel" /\ task[t].dest = d]_vars

\* C23 witness: two destinations are cached, one by a fetch, and a handler
\* that found its destination in the cache is past the lookup
C23_Witness ==
    /\ Cardinality(DOMAIN feed_channel_cache) = 2
    /\ \E d \in DOMAIN feed_channel_cache : feed_channel_cache[d] # ClientObject
    /\ \E t \in Tasks :
          /\ task[t].kind = "message" /\ task[t].pc = "check"
          /\ task[t].dest \in DOMAIN feed_channel_cache
          /\ feed_channel_cache[task[t].dest] \notin {ClientObject, FetchedObject(t)}

\* how many entries of the route of guild g have channel_id c
Entries(g, c) == Cardinality({i \in 1..Len(routes[g]) : routes[g][i] = c})

\* C24: whatever add-feed-channel and remove-feed-channel commands ran on a
\* guild, two adds of one channel in flight together included, every channel
\* id is in the guild's route at most once; the update of an add of a channel
\* that is present leaves the route as it is, the update of an add of an
\* absent channel appends it, and the update of a remove leaves the other
\* entries, in their order, and none of the removed channel.
C24_RouteHasNoDuplicate ==
    /\ [](\A g \in Guilds : \A i, j \in 1..Len(routes[g]) :
             i # j => routes[g][i] # routes[g][j])
    /\ [][\A t \in Tasks :
            task[t].pc = "update" /\ task'[t].pc = "done" =>
                LET g == task[t].msg.guild
                    c == task[t].dest
                IN /\ \A h \in Guilds \ {g} : routes'[h] = routes[h]
                   /\ task[t].kind = "add" =>
                         IF \E i \in 1..Len(routes[g]) : routes[g][i] = c
                         THEN routes'[g] = routes[g]
                         ELSE routes'[g] = routes[g] \o <<c>>
                   /\ task[t].kind = "remove" =>
                         /\ \A i \in 1..Len(routes'[g]) : routes'[g][i] # c
                         /\ \E i \in 0..Len(routes[g]) :
                               /\ routes'[g] = SubSeq(routes[g], 1, i)
                                                \o SubSeq(routes[g], i + 2, Len(routes[g]))
                               /\ i < Len(routes[g]) => routes[g][i + 1] = c]_vars

\* C24 witness: two adds of the same absent channel ran together; both found
\* no route with the channel, both updates are done, and the channel is in
\* the route once
C24_Witness ==
    /\ \A t \in Tasks :
          /\ task[t].kind = "add" /\ task[t].pc = "done"
          /\ task[t].last.outcome = "added"
    /\ task[1].msg.guild = task[2].msg.guild
    /\ task[1].dest = task[2].dest
    /\ Entries(task[1].msg.guild, task[1].dest) = 1

\* the name is a run of two or more emoji, then text with no emoji in it
LeadingRunThenText(name) ==
    \E k \in 2..Len(name) :
        /\ \A i \in 1..k : name[i] \in Emoji
        /\ k < Len(name)
        /\ \A i \in (k + 1)..Len(name) : name[i] \notin Emoji
        /\ \E i \in (k + 1)..Len(name) : name[i] # " "

\* C25: for a channel name that begins with a run of two or more emoji
\* followed by text and has no other emoji, extract_channel_name_parts
\* returns both emoji slots null and a text with no emoji in it.
C25_LeadingRunStripped ==
    probe.fn = "extract_channel_name_parts" /\ LeadingRunThenText(probe.name) =>
        /\ probe.out[1] = NoEmoji
        /\ probe.out[3] = NoEmoji
        /\ \A i \in 1..Len(probe.out[2]) : probe.out[2][i] \notin Emoji

\* no handler of an event of source message s is still running
Settled(s) == \A t \in Tasks : task[t].msg.id = s => task[t].pc \in {"done", "raised"}

\* C26 (as claimed): when a source message is deleted while its mirror to a
\* destination is in flight, then once both handlers have finished no
\* mirrored copy of it is left at the destination and no mapping of it exists.
C26_NoCopyAfterDeleteInFlight ==
    \A s \in DOMAIN msgs :
        msgs[s].deleted /\ Settled(s) =>
            /\ \A c \in DOMAIN feed : feed[c].source = s => ~feed[c].alive
            /\ {r \in mapping : r.source_message_id = s} = {}

\* C27 (as claimed): when a source message is edited while its mirror to a
\* destination is in flight, then once both handlers have finished the
\* mirrored copy shows the edited content.
C27_EditedContentAfterEditInFlight ==
    task[2].kind = "edit" /\ task[2].pc = "done" /\ Settled(task[2].msg.id) =>
        \A c \in DOMAIN feed :
            feed[c].source = task[2].msg.id /\ feed[c].alive =>
                \E include_header \in BOOLEAN :
                    feed[c].content = build_content(task[2].msg, include_header)

\* C28 (as claimed): under any interleaving, once the handlers of a source
\* message that is not deleted have finished, every mirrored copy of it that
\* was delivered to a destination is recorded by a mapping.
C28_DeliveredCopyIsMapped ==
    \A c \in DOMAIN feed :
        /\ feed[c].alive
        /\ ~msgs[feed[c].source].deleted
        /\ Settled(feed[c].source)
        => \E r \in mapping :
              /\ r.feed_message_id = c
              /\ r.source_message_id = feed[c].source
              /\ r.feed_channel_id = feed[c].channel

\* the deletion of source message s has been propagated: its delete handler
\* has returned and no mapping of s is left
DeletePropagated(s) ==
    /\ msgs[s].deleted
    /\ \A t \in Tasks : task[t].kind = "delete" /\ task[t].msg.id = s => task[t].pc = "done"
    /\ \A r \in mapping : r.source_message_id # s

\* C29 (as claimed): once the deletion of a source message has been
\* propagated and its mappings removed, no step (a new-message event of that
\* message delivered once more included) delivers a new mirrored copy of it or
\* stores a new mapping of it.
C29_NoMirrorAfterDelete ==
    [][\A s \in DOMAIN msgs :
          DeletePropagated(s) =>
              /\ \A c \in DOMAIN feed' \ DOMAIN feed : feed'[c].source # s
              /\ \A r \in mapping' : r.source_message_id # s]_vars

\* C30 (as claimed): the timestamp recorded in the grouping state of a
\* destination never decreases, also when mirrors of different source
\* messages to that destination interleave between taking the decision time
\* and committing the state.
C30_TimestampNeverDecreases ==
    [][\A d \in DOMAIN header_state :
          d \in DOMAIN header_state' =>
              header_state'[d].timestamp >= header_state[d].timestamp]_vars

\* C32 (as claimed): propagating an edit preserves the presence of the
\* header: no step gives a header line to a mirrored copy that had none, or
\* takes it from a copy that had one, whatever the body of the message is.
C32_EditPreservesHeader ==
    [][\A c \in DOMAIN feed :
          c \in DOMAIN feed' /\ feed[c].alive /\ feed'[c].alive =>
              HasHeaderLine(feed'[c].content) = HasHeaderLine(feed[c].content)]_vars

\* C31: the grouping window of a destination runs from the previous
\* successful mirror there, not from the last header shown. Every send that
\* delivers a copy, a headerless copy and a reply included, makes the
\* recorded time the decision time of that mirror; and in sequential handling
\* a non-reply message gets no header when the state holds its author and
\* source channel with a time less than the window before its decision time,
\* gets one when that time is the window or more before, and a reply always
\* gets one.
C31_WindowFromPreviousMirror ==
    [][\A t \in Tasks, d \in Channels :
          DeliveredTo(t, d) =>
              LET f == task[t]
                  c == CHOOSE x \in DOMAIN feed' \ DOMAIN feed : TRUE
                  same == /\ d \in DOMAIN header_state
                          /\ header_state[d].author_id = f.msg.author
                          /\ header_state[d].source_channel_id = f.msg.channel
              IN /\ header_state'[d].timestamp = f.loc.current_time
                 /\ header_state'[d].author_id = f.msg.author
                 /\ header_state'[d].source_channel_id = f.msg.channel
                 /\ f.msg.reply_to # None => HasHeaderLine(feed'[c].content)
                 /\ f.msg.reply_to = None /\ same =>
                       (HasHeaderLine(feed'[c].content) <=>
                           f.loc.current_time - header_state[d].timestamp >= GroupingWindow)]_vars

\* C31 witness: a run of three messages was mirrored to one destination; only
\* the first copy carries a header, and the third mirror was decided a full
\* window or more after the first, which was decided at time 0
C31_Witness ==
    \E c1, c2, c3 \in DOMAIN feed :
        /\ c1 < c2 /\ c2 < c3
        /\ feed[c1].channel = feed[c3].channel /\ feed[c2].channel = feed[c3].channel
        /\ \A c \in {c1, c2, c3} : feed[c].alive /\ msgs[feed[c].source].reply_to = None
        /\ HasHeaderLine(feed[c1].content)
        /\ ~HasHeaderLine(feed[c2].content)
        /\ ~HasHeaderLine(feed[c3].content)
        /\ feed[c3].channel \in DOMAIN header_state
        /\ \A c \in DOMAIN feed : c1 <= c
        /\ header_state[feed[c3].channel].timestamp >= GroupingWindow

====
